---------------------------- MODULE Spec2Model ----------------------------
(***************************************************************************)
(* Model of the UEBA risk-scoring engine of secure-login                   *)
(* (src/ueba_system.py): the login_attempts table, the seven signal        *)
(* calculators and their weighted total, log_attempt with its optional     *)
(* anomaly-model blend and its retrain trigger, and train_ml_model.        *)
(*                                                                         *)
(* Units.  Scores are kept as integers in hundredths of a point (21.0 is   *)
(* 2100); the weighted sums are formed in thousandths and round(x, 2) is   *)
(* modelled as rounding thousandths to hundredths.  Time is epoch          *)
(* milliseconds.  A device_id is a sequence of one-character strings so    *)
(* that upper() and the substring test are computed, not assumed.          *)
(***************************************************************************)
EXTENDS Integers, Sequences, FiniteSets, TLC

VARIABLES
    store,          \* login_attempts: sequence of rows in insertion order
    ml_model,       \* self.ml_model: NoModel or [id, fitted, samples]
    ML_AVAILABLE,   \* module flag set by the sklearn import
    now,            \* time.time() * 1000
    frame,          \* per caller: the locals of its log_attempt call
    trainLog,       \* history: one entry per train_ml_model run
    nCalls,         \* number of log_attempt calls started
    nTicks,         \* number of clock advances
    nextModelId     \* history: identity given to the next IsolationForest

vars == <<store, ml_model, ML_AVAILABLE, now, frame, trainLog, nCalls, nTicks,
          nextModelId>>

-----------------------------------------------------------------------------
(* Bounds of the model *)

MaxCalls == 2
MaxTicks == 1

Callers == {1, 2}

(* Program constants *)

VelocityWindowMs == 300000
DeviceWindowMs == 1800000
DefaultLatency == 150
LowLatency == 50
LatencyDeviation == 200
FastGapMs == 1000
QuickGapMs == 5000
RetrainEvery == 50
MinTrainSamples == 10
WeightVelocity == 250
WeightDeviceSwitching == 200
WeightNetworkSwitching == 150
WeightLatencyAnomaly == 150
WeightTimingPattern == 100
WeightFingerprintChange == 100
WeightDeviceSpoofing == 50
RuleBlendTenths == 7
MlBlendTenths == 3
MaxRisk == 10000

AbandonmentWindowMs == 3600000
BaseRiskStep1 == 12
BaseRiskStep2 == 18
EscalationConsistent == 15
EscalationMultiple == 10
EscalationStarting == 6
MetricsWindowMs == 3600000
HighRiskScore == 7000
MaxTotalRisk == 10000
SwitchersWindowMs == 1800000
SwitchersThreshold == 1
HighVelocityWindowMs == 300000
HighVelocityThreshold == 3
PatternsWindowMs == 3600000
PatternsThreshold == 1
RankLimit == 10

NoModel == [id |-> 0, fitted |-> FALSE, samples |-> 0]

-----------------------------------------------------------------------------
(* Strings as character sequences: str.upper() and the `in` test *)

UpperChar(c) ==
    CASE c = "a" -> "A" [] c = "b" -> "B" [] c = "e" -> "E" [] c = "l" -> "L"
      [] c = "m" -> "M" [] c = "o" -> "O" [] c = "p" -> "P" [] c = "r" -> "R"
      [] c = "s" -> "S" [] c = "t" -> "T" [] c = "u" -> "U" [] c = "y" -> "Y"
      [] c = "d" -> "D" [] c = "v" -> "V" [] c = "x" -> "X"
      [] OTHER -> c

Upper(s) == [i \in 1..Len(s) |-> UpperChar(s[i])]

Contains(needle, hay) ==
    \E k \in 0..(Len(hay) - Len(needle)) :
        \A i \in 1..Len(needle) : hay[k + i] = needle[i]

BYPASS == <<"B", "Y", "P", "A", "S", "S">>
TEST == <<"T", "E", "S", "T">>
EMULATOR == <<"E", "M", "U", "L", "A", "T", "O", "R">>

(* dict.get(key, default) *)
Get(params, key, default) ==
    IF key \in DOMAIN params THEN params[key] ELSE default

-----------------------------------------------------------------------------
(* round(x, 2): x is given in thousandths, the result is in hundredths.    *)
(* The float sum may sit on either side of an exact tie, so a tie yields   *)
(* both neighbours.                                                        *)

FloorDiv10(x) == IF x >= 0 THEN x \div 10 ELSE -((-x + 9) \div 10)

Round2(x) ==
    LET lo == FloorDiv10(x)
        r == x - 10 * lo
    IN  IF r < 5 THEN {lo} ELSE IF r > 5 THEN {lo + 1} ELSE {lo, lo + 1}

-----------------------------------------------------------------------------
(* Queries of calculate_risk_score against login_attempts *)

Rows(st, username) == {i \in 1..Len(st) : st[i].username = username}

\* SELECT COUNT(*) ... WHERE username = ? AND timestamp > ?
CountSince(st, username, since) ==
    Cardinality({i \in Rows(st, username) : st[i].timestamp > since})

\* the count, were it COUNT(device_id) without DISTINCT
DeviceRowsSince(st, username, since) ==
    Cardinality({i \in Rows(st, username) : st[i].timestamp > since})

\* SELECT COUNT(DISTINCT device_id) ... WHERE username = ? AND timestamp > ?
DistinctDevicesSince(st, username, since) ==
    Cardinality({st[i].device_id :
                    i \in {j \in Rows(st, username) : st[j].timestamp > since}})

\* the count, were the empty operator counted as an operator
DistinctOperatorsSinceWithEmpty(st, username, since) ==
    Cardinality({st[i].network_operator :
                    i \in {j \in Rows(st, username) : st[j].timestamp > since}})

\* SELECT COUNT(DISTINCT network_operator) ... AND network_operator != ''
DistinctOperatorsSince(st, username, since) ==
    Cardinality({st[i].network_operator :
                    i \in {j \in Rows(st, username) :
                              /\ st[j].timestamp > since
                              /\ st[j].network_operator # ""}})

RECURSIVE SumLatency(_, _)
SumLatency(st, rows) ==
    IF rows = {} THEN 0
    ELSE LET i == CHOOSE j \in rows : TRUE
         IN  st[i].latency + SumLatency(st, rows \ {i})

\* the rows averaged, were the latency > 0 condition left out
LatencyRowsAll(st, username) == Rows(st, username)

\* SELECT AVG(latency) ... WHERE username = ? AND latency > 0, as the pair
\* <<sum, count>>; count = 0 is SQL NULL
LatencyRows(st, username) == {i \in Rows(st, username) : st[i].latency > 0}

Abs(x) == IF x < 0 THEN -x ELSE x

\* the comparison, were a missing average taken as 0
DeviatesFromAverageNoDefault(st, username, current) ==
    LET rows == LatencyRows(st, username)
        n == Cardinality(rows)
    IN  IF n = 0
        THEN Abs(current) > LatencyDeviation
        ELSE Abs(current * n - SumLatency(st, rows)) > LatencyDeviation * n

\* abs(current_latency - avg_latency) > 200 with avg_latency = AVG(...) or 150
DeviatesFromAverage(st, username, current) ==
    LET rows == LatencyRows(st, username)
        n == Cardinality(rows)
    IN  IF n = 0
        THEN Abs(current - DefaultLatency) > LatencyDeviation
        ELSE Abs(current * n - SumLatency(st, rows)) > LatencyDeviation * n

\* the query, were it not restricted to the user
LastTwoTimestampsOfAnyone(st, username) ==
    LET rows == 1..Len(st)
    IN  IF Cardinality(rows) < 2 THEN <<>>
        ELSE LET top == CHOOSE i \in rows :
                            \A j \in rows : st[j].timestamp <= st[i].timestamp
                 rest == rows \ {top}
                 snd == CHOOSE i \in rest :
                            \A j \in rest : st[j].timestamp <= st[i].timestamp
             IN  <<st[top].timestamp, st[snd].timestamp>>

\* SELECT timestamp ... ORDER BY timestamp DESC LIMIT 2
LastTwoTimestamps(st, username) ==
    LET rows == Rows(st, username)
    IN  IF Cardinality(rows) < 2 THEN <<>>
        ELSE LET top == CHOOSE i \in rows :
                            \A j \in rows : st[j].timestamp <= st[i].timestamp
                 rest == rows \ {top}
                 snd == CHOOSE i \in rest :
                            \A j \in rest : st[j].timestamp <= st[i].timestamp
             IN  <<st[top].timestamp, st[snd].timestamp>>

\* SELECT fingerprint ... WHERE fingerprint != '' ORDER BY timestamp DESC
\* LIMIT 1: the rows the query may return (rows that share the latest
\* timestamp are in no defined order); the empty set is "no row"
LastFingerprints(st, username) ==
    LET rows == {i \in Rows(st, username) : st[i].fingerprint # ""}
    IN  {st[i].fingerprint :
            i \in {k \in rows :
                      \A j \in rows : st[j].timestamp <= st[k].timestamp}}

-----------------------------------------------------------------------------
(* The seven signal calculators *)

\* the thresholds, were they inclusive
VelocityScoreInclusive(attempts_5min) ==
    IF attempts_5min >= 10 THEN 95
    ELSE IF attempts_5min >= 5 THEN 70
    ELSE IF attempts_5min >= 3 THEN 40
    ELSE 0

VelocityScore(attempts_5min) ==
    IF attempts_5min > 10 THEN 95
    ELSE IF attempts_5min > 5 THEN 70
    ELSE IF attempts_5min > 3 THEN 40
    ELSE 0

DeviceSwitchingScore(devices_30min) ==
    IF devices_30min > 5 THEN 90
    ELSE IF devices_30min > 3 THEN 60
    ELSE IF devices_30min > 1 THEN 30
    ELSE 0

NetworkSwitchingScore(networks_30min) ==
    IF networks_30min > 3 THEN 85
    ELSE IF networks_30min > 1 THEN 50
    ELSE 0

LatencyAnomalyScore(st, username, params) ==
    LET current_latency == Get(params, "latency", DefaultLatency)
    IN  IF current_latency < LowLatency THEN 70
        ELSE IF DeviatesFromAverage(st, username, current_latency) THEN 50
        ELSE 0

TimingPatternScore(timestamps) ==
    IF Len(timestamps) = 2
    THEN LET time_diff == timestamps[1] - timestamps[2]
         IN  IF time_diff < FastGapMs THEN 80
             ELSE IF time_diff < QuickGapMs THEN 50
             ELSE 0
    ELSE 0

\* the comparison, were it made for an attempt without a fingerprint too
FingerprintChangeScoreAlways(last_fp, params) ==
    IF last_fp # {}
    THEN IF last_fp # {Get(params, "fingerprint", "")} THEN 60 ELSE 0
    ELSE 0

\* last_fp is a set: empty when the query returned no row
FingerprintChangeScore(last_fp, params) ==
    IF last_fp # {} /\ Get(params, "fingerprint", "") # ""
    THEN IF last_fp # {params["fingerprint"]} THEN 60 ELSE 0
    ELSE 0

\* the test, were device_id not upper-cased
DeviceSpoofingScoreCaseSensitive(params) ==
    LET device_id == Get(params, "device_id", <<>>)
    IN  IF \/ Contains(BYPASS, device_id)
           \/ Contains(TEST, device_id)
           \/ Contains(EMULATOR, device_id)
        THEN 85
        ELSE 0

DeviceSpoofingScore(params) ==
    LET device_id == Get(params, "device_id", <<>>)
    IN  IF \/ Contains(BYPASS, Upper(device_id))
           \/ Contains(TEST, Upper(device_id))
           \/ Contains(EMULATOR, Upper(device_id))
        THEN 85
        ELSE 0

SignalNames ==
    {"velocity", "device_switching", "network_switching", "latency_anomaly",
     "timing_pattern", "fingerprint_change", "device_spoofing"}

\* scores, for one row returned by the fingerprint query
ScoresWith(st, username, params, t, last_fp) ==
    [velocity |-> VelocityScore(CountSince(st, username, t - VelocityWindowMs)),
     device_switching |->
        DeviceSwitchingScore(DistinctDevicesSince(st, username, t - DeviceWindowMs)),
     network_switching |->
        NetworkSwitchingScore(DistinctOperatorsSince(st, username, t - DeviceWindowMs)),
     latency_anomaly |-> LatencyAnomalyScore(st, username, params),
     timing_pattern |-> TimingPatternScore(LastTwoTimestamps(st, username)),
     fingerprint_change |-> FingerprintChangeScore(last_fp, params),
     device_spoofing |-> DeviceSpoofingScore(params)]

\* the breakdowns calculate_risk_score can produce (one unless the latest
\* fingerprint rows tie on timestamp)
CalcScores(st, username, params, t) ==
    LET fps == LastFingerprints(st, username)
    IN  IF fps = {} THEN {ScoresWith(st, username, params, t, {})}
        ELSE {ScoresWith(st, username, params, t, {fp}) : fp \in fps}

\* the sum, were the weights of velocity and device_spoofing exchanged
WeightedTotalExchanged(scores) ==
      scores.velocity * WeightDeviceSpoofing
    + scores.device_switching * WeightDeviceSwitching
    + scores.network_switching * WeightNetworkSwitching
    + scores.latency_anomaly * WeightLatencyAnomaly
    + scores.timing_pattern * WeightTimingPattern
    + scores.fingerprint_change * WeightFingerprintChange
    + scores.device_spoofing * WeightVelocity

\* sum(scores[k] * weights[k]) in thousandths
WeightedTotal(scores) ==
      scores.velocity * WeightVelocity
    + scores.device_switching * WeightDeviceSwitching
    + scores.network_switching * WeightNetworkSwitching
    + scores.latency_anomaly * WeightLatencyAnomaly
    + scores.timing_pattern * WeightTimingPattern
    + scores.fingerprint_change * WeightFingerprintChange
    + scores.device_spoofing * WeightDeviceSpoofing

\* round(total, 2): the weighted total is an exact multiple of 0.25, so the
\* rounding has one outcome
RuleTotal(scores) == CHOOSE r \in Round2(WeightedTotal(scores)) : TRUE

-----------------------------------------------------------------------------
(* The INSERT of log_attempt and the retrain trigger *)

\* sqlite3 binds a Python bool as the integer it is: True is stored as 1,
\* False as 0
Adapt(success) == IF success THEN 1 ELSE 0

\* the row, were the id of the latest row taken again
NewRowRecycledId(st, username, step, params, success, ts, risk_score) ==
    [id |-> IF Len(st) = 0 THEN 1 ELSE Len(st),
     username |-> username,
     step |-> step,
     device_id |-> Get(params, "device_id", <<>>),
     network_operator |-> Get(params, "network_operator", ""),
     latency |-> Get(params, "latency", 0),
     fingerprint |-> Get(params, "fingerprint", ""),
     ip_address |-> Get(params, "ip_address", ""),
     user_agent |-> Get(params, "user_agent", ""),
     timestamp |-> ts,
     success |-> Adapt(success),
     risk_score |-> risk_score]

\* the row, were ip_address and user_agent bound to each other's column
NewRowExchanged(st, username, step, params, success, ts, risk_score) ==
    [id |-> Len(st) + 1,
     username |-> username,
     step |-> step,
     device_id |-> Get(params, "device_id", <<>>),
     network_operator |-> Get(params, "network_operator", ""),
     latency |-> Get(params, "latency", 0),
     fingerprint |-> Get(params, "fingerprint", ""),
     ip_address |-> Get(params, "user_agent", ""),
     user_agent |-> Get(params, "ip_address", ""),
     timestamp |-> ts,
     success |-> Adapt(success),
     risk_score |-> risk_score]

\* the row log_attempt inserts; id is AUTOINCREMENT, timestamp is taken at
\* the insert
NewRow(st, username, step, params, success, ts, risk_score) ==
    [id |-> Len(st) + 1,
     username |-> username,
     step |-> step,
     device_id |-> Get(params, "device_id", <<>>),
     network_operator |-> Get(params, "network_operator", ""),
     latency |-> Get(params, "latency", 0),
     fingerprint |-> Get(params, "fingerprint", ""),
     ip_address |-> Get(params, "ip_address", ""),
     user_agent |-> Get(params, "user_agent", ""),
     timestamp |-> ts,
     success |-> Adapt(success),
     risk_score |-> risk_score]

\* the test, were the rows counted before the INSERT
RetrainDueBeforeInsert(available, total) ==
    available /\ (total - 1) % RetrainEvery = 0 /\ total - 1 > 0

\* if ML_AVAILABLE and total % 50 == 0 and total > 0
RetrainDue(available, total) ==
    available /\ total % RetrainEvery = 0 /\ total > 0

\* the rows train_ml_model selects: WHERE latency > 0
TrainingRows(st) == {i \in 1..Len(st) : st[i].latency > 0}

\* the test, were it len(data) <= 10
MoreThanMinSamples(n) == ~(n <= MinTrainSamples)

\* if len(data) < 10: return
EnoughSamples(n) == ~(n < MinTrainSamples)

\* max(0, min(100, (-anomaly_score) * 100)), rounded to 2 decimals; the
\* anomaly score is given in units of 1e-5, the result is in hundredths
Min(a, b) == IF a < b THEN a ELSE b
Max(a, b) == IF a > b THEN a ELSE b

\* the conversion without its max(0, min(100, ...))
MlRiskUnclamped(anomaly_score) == Round2(-anomaly_score)

MlRisk(anomaly_score) ==
    Round2(Max(0, Min(MaxRisk * 10, -anomaly_score)))

\* the blend with its two weights exchanged
CombinedRiskSwapped(risk_score, ml_risk) ==
    risk_score * MlBlendTenths + ml_risk * RuleBlendTenths

\* combined_risk = risk_score * 0.7 + ml_risk * 0.3, in thousandths
CombinedRisk(risk_score, ml_risk) ==
    risk_score * RuleBlendTenths + ml_risk * MlBlendTenths

-----------------------------------------------------------------------------
(* check_abandonment, get_ueba_metrics and the totals of the simulator *)

\* SELECT COUNT(*) ... WHERE username = ? AND timestamp > ? AND step < 3
\* AND success = 0
AbandonmentCount(st, username, since) ==
    Cardinality({i \in Rows(st, username) :
                    /\ st[i].timestamp > since
                    /\ st[i].step < 3
                    /\ st[i].success = 0})

BaseRisk(last_step) ==
    IF last_step = 1 THEN BaseRiskStep1
    ELSE IF last_step = 2 THEN BaseRiskStep2
    ELSE 0

\* the increments, were every tier reached added
EscalationStacked(abandonment_count) ==
      (IF abandonment_count > 5 THEN EscalationConsistent ELSE 0)
    + (IF abandonment_count > 3 THEN EscalationMultiple ELSE 0)
    + (IF abandonment_count > 1 THEN EscalationStarting ELSE 0)

\* the if / elif / elif chain on abandonment_count
Escalation(abandonment_count) ==
    IF abandonment_count > 5 THEN EscalationConsistent
    ELSE IF abandonment_count > 3 THEN EscalationMultiple
    ELSE IF abandonment_count > 1 THEN EscalationStarting
    ELSE 0

\* check_abandonment(username, last_step) at time t, in points
AbandonmentRisk(st, username, last_step, t) ==
    BaseRisk(last_step)
    + Escalation(AbandonmentCount(st, username, t - AbandonmentWindowMs))

\* get_ueba_metrics at time t: the counts it returns
UebaMetrics(st, t) ==
    [total_attempts |-> Len(st),
     high_risk_attempts |->
        Cardinality({i \in 1..Len(st) :
                        /\ st[i].risk_score > HighRiskScore
                        /\ st[i].timestamp > t - MetricsWindowMs}),
     active_users |->
        Cardinality({st[i].username :
                        i \in {j \in 1..Len(st) :
                                  st[j].timestamp > t - MetricsWindowMs}})]

\* GROUP BY username over the rows selected: the users that have a row in
\* rows, each with the number of distinct values val takes on its rows
GroupBy(st, rows, val) ==
    [u \in {st[i].username : i \in rows} |->
        Cardinality({val[i] : i \in {j \in rows : st[j].username = u}})]

\* HAVING n > threshold
Having(counts, threshold) ==
    [u \in {v \in DOMAIN counts : counts[v] > threshold} |-> counts[u]]

\* the lists, were LIMIT left out
RECURSIVE RankedUnlimited(_, _)
RankedUnlimited(counts, limit) ==
    IF DOMAIN counts = {} THEN {<<>>}
    ELSE LET top == {u \in DOMAIN counts :
                        \A v \in DOMAIN counts : counts[v] <= counts[u]}
         IN  UNION {{<<<<u, counts[u]>>>> \o s :
                        s \in RankedUnlimited([v \in DOMAIN counts \ {u} |->
                                                  counts[v]], limit)} :
                    u \in top}

\* ORDER BY n DESC LIMIT limit: the lists of (username, n) the query may
\* return; groups with the same n come in no defined order
RECURSIVE Ranked(_, _)
Ranked(counts, limit) ==
    IF limit = 0 \/ DOMAIN counts = {} THEN {<<>>}
    ELSE LET top == {u \in DOMAIN counts :
                        \A v \in DOMAIN counts : counts[v] <= counts[u]}
         IN  UNION {{<<<<u, counts[u]>>>> \o s :
                        s \in Ranked([v \in DOMAIN counts \ {u} |-> counts[v]],
                                     limit - 1)} :
                    u \in top}

\* get_ueba_metrics at time t: metrics['device_switchers']
DeviceSwitchers(st, t) ==
    LET rows == {i \in 1..Len(st) : st[i].timestamp > t - SwitchersWindowMs}
        devices == [i \in rows |-> st[i].device_id]
    IN  Ranked(Having(GroupBy(st, rows, devices), SwitchersThreshold), RankLimit)

\* ... metrics['high_velocity']; COUNT(*) counts the rows themselves
HighVelocity(st, t) ==
    LET rows == {i \in 1..Len(st) : st[i].timestamp > t - HighVelocityWindowMs}
        attempts == [i \in rows |-> i]
    IN  Ranked(Having(GroupBy(st, rows, attempts), HighVelocityThreshold),
               RankLimit)

\* ... metrics['abandonment_patterns']
AbandonmentPatterns(st, t) ==
    LET rows == {i \in 1..Len(st) : /\ st[i].timestamp > t - PatternsWindowMs
                                    /\ st[i].step < 3
                                    /\ st[i].success = 0}
        abandonments == [i \in rows |-> i]
    IN  Ranked(Having(GroupBy(st, rows, abandonments), PatternsThreshold),
               RankLimit)

\* single_login: total_risk = max(total_risk, risk_score) over the steps of
\* the flow, starting from 0; prior holds the earlier steps
FlowMax(prior, risk_score) ==
    LET all == {0, risk_score} \cup {prior[i].risk_score : i \in 1..Len(prior)}
    IN  CHOOSE m \in all : \A x \in all : x <= m

\* single_login: min(100, total_risk + abandonment_risk), in hundredths
SingleLoginTotal(prior, risk_score, abandonment_risk) ==
    Min(MaxTotalRisk, FlowMax(prior, risk_score) + 100 * abandonment_risk)

\* bulk_test: min(100, risk_score + abandonment_risk), in hundredths
BulkTestTotal(risk_score, abandonment_risk) ==
    Min(MaxTotalRisk, risk_score + 100 * abandonment_risk)

-----------------------------------------------------------------------------
(* Inputs *)

Usernames == {"user1", "user2"}

DEVICE_DEFAULT == <<"d", "e", "v", "1">>
DEVICE_BYPASS == <<"x", "B", "y", "P", "a", "s", "s">>
DEVICE_NEAR == <<"t", "e", "s", "-", "t">>
DEVICE_EMULATOR == <<"e", "m", "u", "l", "a", "t", "o", "r", "2">>

\* a caller's arguments besides the username: step, params, success
Normal ==
    [step |-> 3, success |-> TRUE,
     params |-> [device_id |-> DEVICE_DEFAULT, network_operator |-> "405854",
                 latency |-> 150, fingerprint |-> "FP_DEFAULT",
                 ip_address |-> "192.168.1.1", user_agent |-> "Android/12"]]

Bot ==
    [step |-> 1, success |-> FALSE,
     params |-> [device_id |-> DEVICE_BYPASS, network_operator |-> "310260",
                 latency |-> 30, fingerprint |-> "BOT_FP",
                 ip_address |-> "10.0.0.1", user_agent |-> "Python/3.9"]]

Vpn ==
    [step |-> 1, success |-> TRUE,
     params |-> [device_id |-> DEVICE_NEAR, network_operator |-> "",
                 latency |-> 500, fingerprint |-> "",
                 ip_address |-> "10.0.0.1", user_agent |-> "iOS/16"]]

\* params = {}: every params.get falls back to its default
Bare == [step |-> 2, success |-> FALSE, params |-> <<>>]

\* a second device, operator and fingerprint of the same user
Emulator ==
    [step |-> 2, success |-> TRUE,
     params |-> [device_id |-> DEVICE_EMULATOR, network_operator |-> "405857",
                 latency |-> 300, fingerprint |-> "FP_SPOOFED",
                 ip_address |-> "192.168.1.1", user_agent |-> "Android/12"]]

\* a step that is none of 1, 2, 3
OutOfRange == [step |-> 4, success |-> TRUE, params |-> Normal.params]

Profiles == {Normal, Bot, Vpn, Bare, Emulator}

\* the arguments of the calls made while the store may fail, an ill-formed
\* call among them
FaultProfiles == {Normal, Bare, OutOfRange}

\* the first steps of the flows of the simulator
FlowProfiles == {Bot, Vpn, Bare}

\* the last_step arguments of check_abandonment
LastSteps == {1, 2, 3}

\* the arguments used by overlapping calls
ConcurrentProfiles == {Normal, Bare}

\* values IsolationForest.score_samples may return, in units of 1e-5
AnomalyScores == {-120000, -45678, 500}

TickSteps == {3000, 400000}

\* between flows: a moment, or more than an hour
FlowTickSteps == {3000, 4000000}

-----------------------------------------------------------------------------
(* The database file found at construction: rows logged by an earlier run   *)
(* of the program that started from an empty table.  That run made fewer   *)
(* than 50 calls, so it never trained a model and every score is the       *)
(* rule-based one.                                                         *)

StartTime == 10000000
HistoryStart == 1000000
HistoryGapMs == 10000
BurstGapMs == 2000

NoLatency ==
    [step |-> 3, success |-> TRUE,
     params |-> [device_id |-> DEVICE_DEFAULT, network_operator |-> "405854",
                 fingerprint |-> "FP_DEFAULT"]]

Burst ==
    [step |-> 1, success |-> FALSE,
     params |-> [device_id |-> DEVICE_DEFAULT, network_operator |-> "405854",
                 latency |-> 140, fingerprint |-> "FP_DEFAULT",
                 ip_address |-> "192.168.1.1", user_agent |-> "Android/12"]]

\* old rows first (noLat without a latency, then lat with one; every 12th
\* by user1, the rest by user9), then a recent burst of user1
HistoryUser(h, k) ==
    IF k > h.noLat + h.lat \/ k % 12 = 0 THEN "user1" ELSE "user9"

HistoryArgs(h, k) ==
    IF k <= h.noLat THEN NoLatency
    ELSE IF k <= h.noLat + h.lat THEN Normal
    ELSE Burst

HistoryTime(h, k) ==
    IF k <= h.noLat + h.lat
    THEN HistoryStart + k * HistoryGapMs
    ELSE StartTime - 1000 - (h.noLat + h.lat + h.burst - k) * BurstGapMs

HistoryRow(h, k, risk_score) ==
    NewRow([i \in 1..(k - 1) |-> i], HistoryUser(h, k), HistoryArgs(h, k).step,
           HistoryArgs(h, k).params, HistoryArgs(h, k).success,
           HistoryTime(h, k), risk_score)

\* the signals read no risk_score, so the k-th call is scored against the
\* k-1 rows before it whatever their scores
HistoryInputs(h) ==
    [k \in 1..(h.noLat + h.lat + h.burst) |-> HistoryRow(h, k, 0)]

\* log_attempt with no model, k-th call of the earlier run
HistoryStore(h) ==
    [k \in 1..(h.noLat + h.lat + h.burst) |->
        HistoryRow(h, k,
            RuleTotal(CHOOSE sc \in CalcScores(SubSeq(HistoryInputs(h), 1, k - 1),
                                               HistoryUser(h, k),
                                               HistoryArgs(h, k).params,
                                               HistoryTime(h, k)) : TRUE))]

Histories ==
    {[noLat |-> 0, lat |-> 0, burst |-> 0],
     [noLat |-> 40, lat |-> 5, burst |-> 3],
     [noLat |-> 0, lat |-> 44, burst |-> 5],
     [noLat |-> 0, lat |-> 12, burst |-> 10]}

\* f'DEVICE_SWITCH_{dev}' for dev in range(6)
DEVICE_SWITCH(dev) ==
    <<"D", "E", "V", "I", "C", "E", "_", "S", "W", "I", "T", "C", "H", "_",
      <<"0", "1", "2", "3", "4", "5">>[dev + 1]>>

\* the operator sent with DEVICE_SWITCH(dev): some handsets send none
SwitchOperator(dev) ==
    <<"404001", "", "404002", "404003", "", "404004">>[dev + 1]

SwitchParams(dev) ==
    [device_id |-> DEVICE_SWITCH(dev), network_operator |-> SwitchOperator(dev),
     latency |-> 150, fingerprint |-> "FP_DEFAULT",
     ip_address |-> "192.168.1.1", user_agent |-> "Android/12"]

\* a table for the windowed signals.  Oldest first: pad rows of user9 hours
\* ago, one row of user1 exactly 30 minutes before the start (handset 5),
\* one row of user9 a minute ago, then `recent` rows of user1 `gap` ms
\* apart that end a second before the start, on handsets 0, 1, ... with
\* the last handset used twice
SwitchCount(h) == h.pad + 2 + h.recent

SwitchHandset(h, r) == IF r < h.recent \/ r = 1 THEN r - 1 ELSE r - 2

SwitchUser(h, k) == IF k <= h.pad \/ k = h.pad + 2 THEN "user9" ELSE "user1"

SwitchArgs(h, k) ==
    IF k <= h.pad THEN Normal
    ELSE IF k = h.pad + 1
    THEN [step |-> 1, success |-> TRUE, params |-> SwitchParams(5)]
    ELSE IF k = h.pad + 2 THEN Vpn
    ELSE [step |-> 1, success |-> TRUE,
          params |-> SwitchParams(SwitchHandset(h, k - h.pad - 2))]

SwitchTime(h, k) ==
    IF k <= h.pad THEN HistoryStart + k * HistoryGapMs
    ELSE IF k = h.pad + 1 THEN StartTime - DeviceWindowMs
    ELSE IF k = h.pad + 2 THEN StartTime - 60000
    ELSE StartTime - 1000 - (SwitchCount(h) - k) * h.gap

SwitchRow(h, k, risk_score) ==
    NewRow([i \in 1..(k - 1) |-> i], SwitchUser(h, k), SwitchArgs(h, k).step,
           SwitchArgs(h, k).params, SwitchArgs(h, k).success,
           SwitchTime(h, k), risk_score)

SwitchInputs(h) == [k \in 1..SwitchCount(h) |-> SwitchRow(h, k, 0)]

\* log_attempt with no model, k-th call of the earlier run
SwitchStore(h) ==
    [k \in 1..SwitchCount(h) |->
        SwitchRow(h, k,
            RuleTotal(CHOOSE sc \in CalcScores(SubSeq(SwitchInputs(h), 1, k - 1),
                                               SwitchUser(h, k),
                                               SwitchArgs(h, k).params,
                                               SwitchTime(h, k)) : TRUE))]

SwitchHistories ==
    {[pad |-> 0, recent |-> 0, gap |-> 0],
     [pad |-> 0, recent |-> 3, gap |-> 999],
     [pad |-> 0, recent |-> 4, gap |-> 5000],
     [pad |-> 41, recent |-> 6, gap |-> 1000]}

\* the arguments of the calls that follow such a table
SwitchProfiles == {Normal, Bot, Vpn, Emulator}

\* a moment, or the 30 minutes of the device and operator windows
SwitchTickSteps == {3000, 1800000}

\* the usernames of populate_mock_users that appear on the dashboard
DashboardUsers ==
    <<"user1", "user2", "user3", "user4", "user5", "user6", "user7", "user8",
      "user9", "user10", "user11", "user12">>

\* the events of each of them in the five minutes before the start
DashboardAttempts == <<3, 4, 4, 5, 6, 7, 8, 9, 10, 11, 12, 13>>

\* device ids of one user's handsets
DEVICE_OF(k) ==
    <<"D", "E", "V", "_",
      <<"A", "B", "C", "D", "E", "F", "G", "H", "I", "J", "K", "L">>[k]>>

\* a table for the dashboard.  Oldest first: DashboardPad rows of user20
\* hours ago, an abandoned step 2 of user1 45 minutes ago, a completed
\* step 3 of user1 10 minutes ago on a handset of its own, then the
\* events of the last minutes, a second apart, user after user.  User u
\* makes DashboardAttempts[u] of them: all but its last are abandoned first
\* steps, and its last two are made on the same handset.
DashboardPad == 5

RECURSIVE DashboardBefore(_)
DashboardBefore(u) ==
    IF u = 1 THEN 0 ELSE DashboardBefore(u - 1) + DashboardAttempts[u - 1]

DashboardCount == DashboardPad + 2 + DashboardBefore(12) + DashboardAttempts[12]

\* the user and the rank of the r-th event of the last minutes
DashboardUserAt(r) ==
    CHOOSE u \in 1..12 :
        DashboardBefore(u) < r /\ r <= DashboardBefore(u) + DashboardAttempts[u]

DashboardRankAt(r) == r - DashboardBefore(DashboardUserAt(r))

DashboardUser(k) ==
    IF k <= DashboardPad THEN "user20"
    ELSE IF k <= DashboardPad + 2 THEN "user1"
    ELSE DashboardUsers[DashboardUserAt(k - DashboardPad - 2)]

DashboardParams(k) ==
    [device_id |-> DEVICE_OF(k), network_operator |-> "405854",
     latency |-> 150, fingerprint |-> "FP_DEFAULT",
     ip_address |-> "192.168.1.1", user_agent |-> "Android/12"]

DashboardArgs(k) ==
    IF k <= DashboardPad THEN Normal
    ELSE IF k = DashboardPad + 1
    THEN [step |-> 2, success |-> FALSE, params |-> DashboardParams(1)]
    ELSE IF k = DashboardPad + 2
    THEN [step |-> 3, success |-> TRUE, params |-> DashboardParams(12)]
    ELSE LET u == DashboardUserAt(k - DashboardPad - 2)
             j == DashboardRankAt(k - DashboardPad - 2)
             n == DashboardAttempts[u]
         IN  IF j < n
             THEN [step |-> 1, success |-> FALSE, params |-> DashboardParams(j)]
             ELSE IF u % 2 = 0
             THEN [step |-> 3, success |-> FALSE,
                   params |-> DashboardParams(j - 1)]
             ELSE [step |-> 1, success |-> TRUE,
                   params |-> DashboardParams(j - 1)]

DashboardTime(k) ==
    IF k <= DashboardPad THEN HistoryStart + k * HistoryGapMs
    ELSE IF k = DashboardPad + 1 THEN StartTime - 2700000
    ELSE IF k = DashboardPad + 2 THEN StartTime - 600000
    ELSE StartTime - 1000 - (DashboardCount - k) * 1000

DashboardRow(k, risk_score) ==
    NewRow([i \in 1..(k - 1) |-> i], DashboardUser(k), DashboardArgs(k).step,
           DashboardArgs(k).params, DashboardArgs(k).success,
           DashboardTime(k), risk_score)

DashboardInputs == [k \in 1..DashboardCount |-> DashboardRow(k, 0)]

\* log_attempt of an earlier run without scikit-learn, k-th call: every
\* score is the rule-based one
DashboardStore ==
    [k \in 1..DashboardCount |->
        DashboardRow(k,
            RuleTotal(CHOOSE sc \in CalcScores(SubSeq(DashboardInputs, 1, k - 1),
                                               DashboardUser(k),
                                               DashboardArgs(k).params,
                                               DashboardTime(k)) : TRUE))]

\* the arguments of the calls made while the dashboard is read
DashboardProfiles == {Normal, Bot}

\* more than the 5 minutes of high_velocity, more than the 30 minutes of
\* device_switchers
DashboardTickSteps == {400000, 2000000}

-----------------------------------------------------------------------------
(* State machine *)

IdleFrame ==
    [pc |-> "idle", username |-> "", step |-> 0, params |-> <<>>,
     success |-> FALSE,
     t |-> 0,               \* `now` of calculate_risk_score
     seen |-> 0,            \* rows in the table when the signals were read
     rule_score |-> 0,      \* first value returned by calculate_risk_score
     risk_score |-> 0,      \* the local risk_score (blended when a model is used)
     breakdown |-> <<>>,
     ml_risk |-> 0,
     features |-> <<>>,     \* the vector handed to predict/score_samples
     models |-> <<>>,       \* history: self.ml_model as read, in order
     total |-> 0,           \* SELECT COUNT(*) after the insert
     row |-> 0,             \* history: index of the inserted row
     retrain |-> FALSE,     \* history: whether train_ml_model was called
     failed_at |-> "",      \* history: where a sqlite3 error ended the call
     prior |-> <<>>,        \* earlier steps of the caller's flow, as returned
     abandonment |-> <<>>,  \* the caller's check_abandonment, once made
     metrics |-> <<>>]      \* the caller's get_ueba_metrics, once made

\* the table, were the INSERT issued before the signals are computed
TableAfterInsert(st, username, a, t) ==
    Append(st, NewRow(st, username, a.step, a.params, a.success, t, 0))

\* the table as calculate_risk_score finds it: log_attempt scores first and
\* inserts afterwards, so the call's own row is not in it
TableAtScoring(st, username, a, t) == st

\* __init__: train_ml_model on the rows found, if ML_AVAILABLE
InitialModel(available, st) ==
    IF available /\ EnoughSamples(Cardinality(TrainingRows(st)))
    THEN [id |-> 1, fitted |-> TRUE, samples |-> Cardinality(TrainingRows(st))]
    ELSE NoModel

Init ==
    \E h \in Histories, available \in BOOLEAN :
        /\ store = HistoryStore(h)
        /\ ML_AVAILABLE = available
        /\ ml_model = InitialModel(available, HistoryStore(h))
        /\ trainLog =
              IF available
              THEN <<[samples |-> Cardinality(TrainingRows(HistoryStore(h))),
                      before |-> NoModel,
                      after |-> InitialModel(available, HistoryStore(h))]>>
              ELSE <<>>
        /\ now = StartTime
        /\ frame = [p \in Callers |-> IdleFrame]
        /\ nCalls = 0
        /\ nTicks = 0
        /\ nextModelId = 2

Free(p) == frame[p].pc \in {"idle", "returned", "raised", "failed"}

\* callers are interchangeable threads: a new call takes the lowest free one
LowestFree(p) == Free(p) /\ \A q \in Callers : q < p => ~Free(q)

\* log_attempt is entered and calculate_risk_score reads the table
Call(p, username, a) ==
    /\ LowestFree(p)
    /\ nCalls < MaxCalls
    /\ nCalls' = nCalls + 1
    /\ \E scores \in CalcScores(TableAtScoring(store, username, a, now), username,
                              a.params, now) :
          frame' = [frame EXCEPT ![p] =
                      [IdleFrame EXCEPT
                          !.pc = "ml_check",
                          !.username = username,
                          !.step = a.step,
                          !.params = a.params,
                          !.success = a.success,
                          !.t = now,
                          !.seen = Len(store),
                          !.rule_score = RuleTotal(scores),
                          !.risk_score = RuleTotal(scores),
                          !.breakdown = scores]]
    /\ UNCHANGED <<store, ml_model, ML_AVAILABLE, now, trainLog, nTicks, nextModelId>>

\* if ML_AVAILABLE and self.ml_model is not None
MlCheck(p) ==
    /\ frame[p].pc = "ml_check"
    /\ frame' = [frame EXCEPT
                    ![p].pc = IF ML_AVAILABLE /\ ml_model # NoModel
                              THEN "ml_features" ELSE "insert",
                    ![p].models = IF ML_AVAILABLE THEN <<ml_model>> ELSE <<>>]
    /\ UNCHANGED <<store, ml_model, ML_AVAILABLE, now, trainLog, nCalls, nTicks,
                   nextModelId>>

\* get_ml_risk_score up to the feature vector: the guard, the two counts and
\* the second calculate_risk_score
MlFeatures(p) ==
    /\ frame[p].pc = "ml_features"
    /\ LET f == frame[p] IN
       IF ~ML_AVAILABLE \/ ml_model = NoModel
       THEN \E final \in Round2(CombinedRisk(f.risk_score, 0)) :
               frame' = [frame EXCEPT
                           ![p].pc = "insert",
                           ![p].models = Append(f.models, ml_model),
                           ![p].ml_risk = 0,
                           ![p].breakdown = [k \in SignalNames \cup {"ml_anomaly"} |->
                                               IF k = "ml_anomaly" THEN 0
                                               ELSE f.breakdown[k]],
                           ![p].risk_score = final]
       ELSE \E scores \in CalcScores(store, f.username, f.params, now) :
               frame' = [frame EXCEPT
                           ![p].pc = "ml_predict",
                           ![p].models = Append(f.models, ml_model),
                           ![p].features =
                              <<Get(f.params, "latency", DefaultLatency),
                                RuleTotal(scores),
                                Get(f.params, "step", 1),
                                CountSince(store, f.username, now - VelocityWindowMs),
                                DistinctDevicesSince(store, f.username,
                                                     now - DeviceWindowMs)>>]
    /\ UNCHANGED <<store, ml_model, ML_AVAILABLE, now, trainLog, nCalls, nTicks,
                   nextModelId>>

\* self.ml_model.predict(features): NotFittedError on a model not yet fitted
MlPredict(p) ==
    /\ frame[p].pc = "ml_predict"
    /\ frame' = [frame EXCEPT
                    ![p].pc = IF ml_model.fitted THEN "ml_score" ELSE "raised",
                    ![p].models = Append(frame[p].models, ml_model)]
    /\ UNCHANGED <<store, ml_model, ML_AVAILABLE, now, trainLog, nCalls, nTicks,
                   nextModelId>>

\* self.ml_model.score_samples(features), the conversion to a risk, and the
\* blend of log_attempt
MlScore(p) ==
    /\ frame[p].pc = "ml_score"
    /\ LET f == frame[p] IN
       IF ~ml_model.fitted
       THEN frame' = [frame EXCEPT ![p].pc = "raised",
                                   ![p].models = Append(f.models, ml_model)]
       ELSE \E anomaly_score \in AnomalyScores :
            \E ml_risk \in MlRisk(anomaly_score) :
            \E final \in Round2(CombinedRisk(f.risk_score, ml_risk)) :
               frame' = [frame EXCEPT
                           ![p].pc = "insert",
                           ![p].models = Append(f.models, ml_model),
                           ![p].ml_risk = ml_risk,
                           ![p].breakdown = [k \in SignalNames \cup {"ml_anomaly"} |->
                                               IF k = "ml_anomaly" THEN ml_risk
                                               ELSE f.breakdown[k]],
                           ![p].risk_score = final]
    /\ UNCHANGED <<store, ml_model, ML_AVAILABLE, now, trainLog, nCalls, nTicks,
                   nextModelId>>

\* INSERT, SELECT COUNT(*), commit, and the retrain test
Insert(p) ==
    /\ frame[p].pc = "insert"
    /\ LET f == frame[p]
           total == Len(store) + 1
       IN  /\ store' = Append(store, NewRow(store, f.username, f.step, f.params,
                                            f.success, now, f.risk_score))
           /\ frame' = [frame EXCEPT
                           ![p].pc = IF RetrainDue(ML_AVAILABLE, total)
                                     THEN "train" ELSE "returned",
                           ![p].total = total,
                           ![p].row = total,
                           ![p].retrain = RetrainDue(ML_AVAILABLE, total)]
    /\ UNCHANGED <<ml_model, ML_AVAILABLE, now, trainLog, nCalls, nTicks, nextModelId>>

\* train_ml_model up to self.ml_model = IsolationForest(...)
Train(p) ==
    /\ frame[p].pc = "train"
    /\ LET n == Cardinality(TrainingRows(store)) IN
       IF EnoughSamples(n)
       THEN /\ ml_model' = [id |-> nextModelId, fitted |-> FALSE, samples |-> n]
            /\ nextModelId' = nextModelId + 1
            /\ frame' = [frame EXCEPT ![p].pc = "fit"]
            /\ trainLog' = Append(trainLog,
                                  [samples |-> n, before |-> ml_model,
                                   after |-> ml_model'])
       ELSE /\ frame' = [frame EXCEPT ![p].pc = "returned"]
            /\ trainLog' = Append(trainLog,
                                  [samples |-> n, before |-> ml_model,
                                   after |-> ml_model])
            /\ UNCHANGED <<ml_model, nextModelId>>
    /\ UNCHANGED <<store, ML_AVAILABLE, now, nCalls, nTicks>>

\* the end of train_ml_model, were the forest dropped after fitting
FitDiscards(p) ==
    /\ frame[p].pc = "fit"
    /\ ml_model' = NoModel
    /\ frame' = [frame EXCEPT ![p].pc = "returned"]
    /\ UNCHANGED <<store, ML_AVAILABLE, now, trainLog, nCalls, nTicks, nextModelId>>

\* self.ml_model.fit(X), then log_attempt returns
Fit(p) ==
    /\ frame[p].pc = "fit"
    /\ ml_model' = [ml_model EXCEPT !.fitted = TRUE]
    /\ frame' = [frame EXCEPT ![p].pc = "returned"]
    /\ UNCHANGED <<store, ML_AVAILABLE, now, trainLog, nCalls, nTicks, nextModelId>>

\* the clock advances
Tick(d) ==
    /\ nTicks < MaxTicks
    /\ nTicks' = nTicks + 1
    /\ now' = now + d
    /\ UNCHANGED <<store, ml_model, ML_AVAILABLE, frame, trainLog, nCalls,
                   nextModelId>>

\* the frame of a call that a sqlite3 error ended at `at`, were the error
\* swallowed and the call carried on with counts of zero
Swallowed(f, at) ==
    [f EXCEPT !.pc = "insert", !.failed_at = at,
              !.breakdown = [k \in SignalNames |-> 0]]

\* the frame of a call that a sqlite3 error ended at `at`: nothing catches
\* the exception, it leaves log_attempt
Failed(f, at) == [f EXCEPT !.pc = "failed", !.failed_at = at]

\* log_attempt is entered and a query of calculate_risk_score raises
CallStoreFails(p, username, a) ==
    /\ LowestFree(p)
    /\ nCalls < MaxCalls
    /\ nCalls' = nCalls + 1
    /\ frame' = [frame EXCEPT ![p] =
                    Failed([IdleFrame EXCEPT
                               !.username = username,
                               !.step = a.step,
                               !.params = a.params,
                               !.success = a.success,
                               !.t = now,
                               !.seen = Len(store)],
                           "signals")]
    /\ UNCHANGED <<store, ml_model, ML_AVAILABLE, now, trainLog, nTicks, nextModelId>>

\* a later access raises: the queries of get_ml_risk_score, the INSERT, the
\* COUNT or the commit of log_attempt (the connection is dropped without a
\* commit, which rolls the INSERT back), or the SELECT of train_ml_model
StoreFails(p) ==
    /\ frame[p].pc \in {"ml_features", "insert", "train"}
    /\ frame' = [frame EXCEPT ![p] = Failed(frame[p], frame[p].pc)]
    /\ UNCHANGED <<store, ml_model, ML_AVAILABLE, now, trainLog, nCalls, nTicks,
                   nextModelId>>

\* the simulator logs the next step of the flow it is in: same username and
\* params, step + 1.  single_login passes success = True for every step but
\* the last of an abandoned flow; bulk_test passes False for both steps of
\* an abandoned flow.
NextStep(p, success) ==
    /\ frame[p].pc = "returned"
    /\ frame[p].abandonment = <<>>
    /\ frame[p].metrics = <<>>
    /\ frame[p].step < 3
    /\ frame[p].step = Len(frame[p].prior) + 1
    /\ frame[p].success \/ (~success /\ frame[p].step = 1)
    /\ nCalls < MaxCalls
    /\ nCalls' = nCalls + 1
    /\ LET f == frame[p] IN
       \E scores \in CalcScores(TableAtScoring(store, f.username, f, now),
                                f.username, f.params, now) :
          frame' = [frame EXCEPT ![p] =
                      [IdleFrame EXCEPT
                          !.pc = "ml_check",
                          !.username = f.username,
                          !.step = f.step + 1,
                          !.params = f.params,
                          !.success = success,
                          !.t = now,
                          !.seen = Len(store),
                          !.rule_score = RuleTotal(scores),
                          !.risk_score = RuleTotal(scores),
                          !.breakdown = scores,
                          !.prior = Append(f.prior,
                                           [risk_score |-> f.risk_score,
                                            success |-> f.success])]]
    /\ UNCHANGED <<store, ml_model, ML_AVAILABLE, now, trainLog, nTicks, nextModelId>>

\* what a caller keeps of a check_abandonment call
Checked(caller, username, last_step, total_risk) ==
    [caller |-> caller, username |-> username, last_step |-> last_step,
     t |-> now, seen |-> Len(store),
     risk |-> AbandonmentRisk(store, username, last_step, now),
     total_risk |-> total_risk]

\* check_abandonment(username, last_step) called on its own
CheckAbandonment(p, username, last_step) ==
    /\ Free(p)
    /\ frame[p].abandonment = <<>>
    /\ frame[p].metrics = <<>>
    /\ frame' = [frame EXCEPT ![p].abandonment =
                    Checked("check_abandonment", username, last_step, 0)]
    /\ UNCHANGED <<store, ml_model, ML_AVAILABLE, now, trainLog, nCalls, nTicks,
                   nextModelId>>

\* the flow whose last step has returned was logged by single_login as an
\* abandoned one: every step but the last with success = True
AbandonedInSingleLogin(f) ==
    /\ f.pc = "returned"
    /\ f.step \in {1, 2}
    /\ f.step = Len(f.prior) + 1
    /\ ~f.success
    /\ \A i \in 1..Len(f.prior) : f.prior[i].success

\* ... by bulk_test, scenario 4: every step with success = False
AbandonedInBulkTest(f) ==
    /\ f.pc = "returned"
    /\ f.step \in {1, 2}
    /\ f.step = Len(f.prior) + 1
    /\ ~f.success
    /\ \A i \in 1..Len(f.prior) : ~f.prior[i].success

\* single_login, if abandoned: check_abandonment(username, len(steps)) and
\* total_risk = min(100, total_risk + abandonment_risk)
SingleLoginAbandoned(p) ==
    /\ AbandonedInSingleLogin(frame[p])
    /\ frame[p].abandonment = <<>>
    /\ frame[p].metrics = <<>>
    /\ LET f == frame[p] IN
       frame' = [frame EXCEPT ![p].abandonment =
                    Checked("single_login", f.username, f.step,
                            SingleLoginTotal(f.prior, f.risk_score,
                                AbandonmentRisk(store, f.username, f.step, now)))]
    /\ UNCHANGED <<store, ml_model, ML_AVAILABLE, now, trainLog, nCalls, nTicks,
                   nextModelId>>

\* bulk_test, scenario 4: check_abandonment(username, steps) and
\* total_risk = min(100, risk_score + abandonment_risk)
BulkTestAbandoned(p) ==
    /\ AbandonedInBulkTest(frame[p])
    /\ frame[p].abandonment = <<>>
    /\ frame[p].metrics = <<>>
    /\ LET f == frame[p] IN
       frame' = [frame EXCEPT ![p].abandonment =
                    Checked("bulk_test", f.username, f.step,
                            BulkTestTotal(f.risk_score,
                                AbandonmentRisk(store, f.username, f.step, now)))]
    /\ UNCHANGED <<store, ml_model, ML_AVAILABLE, now, trainLog, nCalls, nTicks,
                   nextModelId>>

\* get_ueba_metrics
GetUebaMetrics(p) ==
    /\ Free(p)
    /\ frame[p].abandonment = <<>>
    /\ frame[p].metrics = <<>>
    /\ \E device_switchers \in DeviceSwitchers(store, now),
          high_velocity \in HighVelocity(store, now),
          abandonment_patterns \in AbandonmentPatterns(store, now) :
          frame' = [frame EXCEPT ![p].metrics =
                       [t |-> now, seen |-> Len(store),
                        values |-> UebaMetrics(store, now),
                        device_switchers |-> device_switchers,
                        high_velocity |-> high_velocity,
                        abandonment_patterns |-> abandonment_patterns]]
    /\ UNCHANGED <<store, ml_model, ML_AVAILABLE, now, trainLog, nCalls, nTicks,
                   nextModelId>>

\* one caller: calls follow one another
Next ==
    \/ \E username \in Usernames, a \in Profiles : Call(1, username, a)
    \/ MlCheck(1)
    \/ MlFeatures(1)
    \/ MlPredict(1)
    \/ MlScore(1)
    \/ Insert(1)
    \/ Train(1)
    \/ Fit(1)
    \/ \E d \in TickSteps : Tick(d)

Spec == Init /\ [][Next]_vars

\* two threads calling log_attempt on the same UEBASystem
NextConcurrent ==
    \/ \E p \in Callers, username \in Usernames, a \in ConcurrentProfiles :
          Call(p, username, a)
    \/ \E p \in Callers : MlCheck(p)
    \/ \E p \in Callers : MlFeatures(p)
    \/ \E p \in Callers : MlPredict(p)
    \/ \E p \in Callers : MlScore(p)
    \/ \E p \in Callers : Insert(p)
    \/ \E p \in Callers : Train(p)
    \/ \E p \in Callers : Fit(p)
    \/ \E d \in TickSteps : Tick(d)

SpecConcurrent == Init /\ [][NextConcurrent]_vars

\* one caller, any arguments, and a store whose every access may raise
NextFaults ==
    \/ \E username \in Usernames, a \in FaultProfiles : Call(1, username, a)
    \/ \E username \in Usernames, a \in FaultProfiles :
          CallStoreFails(1, username, a)
    \/ MlCheck(1)
    \/ MlFeatures(1)
    \/ MlPredict(1)
    \/ MlScore(1)
    \/ Insert(1)
    \/ Train(1)
    \/ Fit(1)
    \/ StoreFails(1)
    \/ \E d \in TickSteps : Tick(d)

SpecFaults == Init /\ [][NextFaults]_vars

\* one client driving flows as the simulator does, with check_abandonment
\* and get_ueba_metrics between its log_attempt calls
NextFlows ==
    \/ \E username \in Usernames, a \in FlowProfiles : Call(1, username, a)
    \/ \E success \in BOOLEAN : NextStep(1, success)
    \/ MlCheck(1)
    \/ MlFeatures(1)
    \/ MlPredict(1)
    \/ MlScore(1)
    \/ Insert(1)
    \/ Train(1)
    \/ Fit(1)
    \/ \E username \in Usernames, last_step \in LastSteps :
          CheckAbandonment(1, username, last_step)
    \/ SingleLoginAbandoned(1)
    \/ BulkTestAbandoned(1)
    \/ GetUebaMetrics(1)
    \/ \E d \in FlowTickSteps : Tick(d)

SpecFlows == Init /\ [][NextFlows]_vars

\* the engine constructed on a table of recent events of many handsets
InitSwitch ==
    \E h \in SwitchHistories, available \in BOOLEAN :
        /\ store = SwitchStore(h)
        /\ ML_AVAILABLE = available
        /\ ml_model = InitialModel(available, SwitchStore(h))
        /\ trainLog =
              IF available
              THEN <<[samples |-> Cardinality(TrainingRows(SwitchStore(h))),
                      before |-> NoModel,
                      after |-> InitialModel(available, SwitchStore(h))]>>
              ELSE <<>>
        /\ now = StartTime
        /\ frame = [p \in Callers |-> IdleFrame]
        /\ nCalls = 0
        /\ nTicks = 0
        /\ nextModelId = 2

NextSwitch ==
    \/ \E username \in Usernames, a \in SwitchProfiles : Call(1, username, a)
    \/ MlCheck(1)
    \/ MlFeatures(1)
    \/ MlPredict(1)
    \/ MlScore(1)
    \/ Insert(1)
    \/ Train(1)
    \/ Fit(1)
    \/ \E d \in SwitchTickSteps : Tick(d)

SpecSwitch == InitSwitch /\ [][NextSwitch]_vars

\* the engine constructed on the table of a busy day
InitDashboard ==
    \E available \in BOOLEAN :
        /\ store = DashboardStore
        /\ ML_AVAILABLE = available
        /\ ml_model = InitialModel(available, DashboardStore)
        /\ trainLog =
              IF available
              THEN <<[samples |-> Cardinality(TrainingRows(DashboardStore)),
                      before |-> NoModel,
                      after |-> InitialModel(available, DashboardStore)]>>
              ELSE <<>>
        /\ now = StartTime
        /\ frame = [p \in Callers |-> IdleFrame]
        /\ nCalls = 0
        /\ nTicks = 0
        /\ nextModelId = 2

\* the dashboard reads the metrics between the calls of one client
NextDashboard ==
    \/ \E username \in Usernames, a \in DashboardProfiles : Call(1, username, a)
    \/ MlCheck(1)
    \/ MlFeatures(1)
    \/ MlPredict(1)
    \/ MlScore(1)
    \/ Insert(1)
    \/ Train(1)
    \/ Fit(1)
    \/ GetUebaMetrics(1)
    \/ \E d \in DashboardTickSteps : Tick(d)

SpecDashboard == InitDashboard /\ [][NextDashboard]_vars

-----------------------------------------------------------------------------
(* Properties *)

\* callers whose frame holds the result of calculate_risk_score
Scored == {p \in Callers : frame[p].breakdown # <<>>}

\* callers whose call has inserted its row
Inserted == {p \in Callers : frame[p].row > 0}

\* the rule signals of a breakdown, without ml_anomaly
RuleSignals(breakdown) == [k \in SignalNames |-> breakdown[k]]

\* C1: every risk_score persisted in login_attempts and every risk_score
\* held by a call that has computed its final score lies in [0, 100], so
\* clamping it into [0, 100] before the INSERT leaves it as it is.
C1_RiskInRange ==
    /\ \A i \in 1..Len(store) :
          /\ store[i].risk_score >= 0
          /\ store[i].risk_score <= 10000
    /\ \A p \in Callers :
          frame[p].pc \in {"insert", "train", "fit", "returned"} =>
             /\ frame[p].risk_score >= 0
             /\ frame[p].risk_score <= 10000
             /\ frame[p].row > 0 =>
                   store[frame[p].row].risk_score = frame[p].risk_score

\* a blended score built from an anomaly score that needed the clamp has
\* been returned and persisted
C1_Witness ==
    \E p \in Callers :
       /\ frame[p].pc = "returned"
       /\ frame[p].row > 0
       /\ "ml_anomaly" \in DOMAIN frame[p].breakdown
       /\ frame[p].ml_risk = 10000
       /\ frame[p].rule_score > 0
       /\ store[frame[p].row].risk_score = frame[p].risk_score

\* C2: the signals and the rule score of a call are those of the table as
\* it was before the call's own row was appended: the row lands strictly
\* after the rows that were read, and the breakdown equals the breakdown
\* computed over exactly those earlier rows.
C2_ScoredBeforeAppend ==
    \A p \in Scored :
       LET f == frame[p]
           before == SubSeq(store, 1, f.seen)
       IN  /\ f.seen <= Len(store)
           /\ f.row > 0 => f.row > f.seen
           /\ RuleSignals(f.breakdown)
                 \in CalcScores(before, f.username, f.params, f.t)
           /\ f.rule_score = RuleTotal(RuleSignals(f.breakdown))

\* a call whose own row would have lifted the velocity count from 3 to 4
\* (velocity 40) was scored with velocity 0
C2_Witness ==
    \E p \in Inserted :
       LET f == frame[p] IN
       /\ f.row = f.seen + 1
       /\ f.breakdown.velocity = 0
       /\ CountSince(SubSeq(store, 1, f.row), f.username, f.t - 300000) = 4

\* C3: two log_attempt calls on the same username are serialized: one of
\* them reads its signals only after the other's row has been appended.
C3_SameUserSerialized ==
    \A p, q \in Inserted :
       (p # q /\ frame[p].username = frame[q].username) =>
          \/ frame[p].seen >= frame[q].row
          \/ frame[q].seen >= frame[p].row

\* C4: a scoring call never reads a model that is installed but not fitted,
\* and all its reads of self.ml_model return the same model.
C4_AtomicModelSwap ==
    \A p \in Callers :
       \A i \in 1..Len(frame[p].models) :
          /\ frame[p].models[i] # NoModel => frame[p].models[i].fitted
          /\ frame[p].models[i].id = frame[p].models[1].id

\* C5 as stated: a write triggers a retraining attempt exactly when the
\* count of rows including the new one is a positive multiple of 50.
C5_RetrainIffMultipleOf50 ==
    \A p \in Inserted :
       frame[p].retrain <=> (frame[p].row % 50 = 0 /\ frame[p].row > 0)

\* C5 as amended: a write triggers a retraining attempt exactly when
\* ML_AVAILABLE holds and the count of rows including the new one is a
\* positive multiple of 50; the count the test uses is that of the table
\* including the new row, and a triggered call goes on to train_ml_model.
C5_RetrainIffAvailableAndMultipleOf50 ==
    \A p \in Inserted :
       /\ frame[p].total = frame[p].row
       /\ frame[p].retrain <=>
             (ML_AVAILABLE /\ frame[p].row % 50 = 0 /\ frame[p].row > 0)
       /\ frame[p].pc \in {"train", "fit"} => frame[p].retrain
       /\ (frame[p].retrain /\ frame[p].pc = "returned") =>
             Len(trainLog) >= 2

\* the write that brings the table to 50 rows has triggered a retraining
C5_Witness ==
    \E p \in Inserted :
       /\ frame[p].row = 50
       /\ frame[p].retrain
       /\ frame[p].pc = "train"

\* C6: a train_ml_model run that finds fewer than 10 rows with latency > 0
\* leaves self.ml_model as it was, and the log_attempt that triggered it
\* returns normally (unless the store itself fails); a run that finds 10 or
\* more installs a new model.
C6_TrainNeedsTenSamples ==
    /\ \A i \in 1..Len(trainLog) :
          /\ trainLog[i].samples <= Cardinality({k \in 1..Len(store) :
                                                   store[k].latency > 0})
          /\ trainLog[i].samples < 10 => trainLog[i].after = trainLog[i].before
          /\ trainLog[i].samples >= 10 =>
                /\ trainLog[i].after # trainLog[i].before
                /\ trainLog[i].after # NoModel
                /\ trainLog[i].after.samples = trainLog[i].samples
    /\ \A p \in Callers :
          (/\ frame[p].retrain
           /\ frame[p].failed_at = ""
           /\ frame[p].pc \notin {"train", "fit"}) =>
             frame[p].pc = "returned"
    /\ (\A i \in 1..Len(trainLog) : trainLog[i].samples < 10) => ml_model = NoModel

\* a retraining triggered at 50 rows found 9 samples, left the engine
\* without a model, and the call returned
C6_Witness ==
    \E p \in Inserted :
       /\ frame[p].retrain
       /\ frame[p].pc = "returned"
       /\ Len(trainLog) = 2
       /\ trainLog[2].samples = 9
       /\ trainLog[2].after = NoModel
       /\ ml_model = NoModel

\* callers whose final score is computed
Finished == {p \in Callers : frame[p].pc \in {"insert", "train", "fit", "returned"}}

\* whether the presence test of log_attempt found a model
SawModel(p) == frame[p].models # <<>> /\ frame[p].models[1] # NoModel

\* C7: with a model present the final score is 0.7 * rule + 0.3 * ml
\* rounded to the nearest hundredth and the breakdown carries ml_anomaly;
\* with no model the final score is the rule score, the ML part is 0 and
\* the breakdown holds the seven rule signals only.  A call that finds no
\* model never raises.
C7_Blend ==
    /\ \A p \in Finished :
          LET f == frame[p] IN
          IF SawModel(p)
          THEN /\ Abs(10 * f.risk_score - (7 * f.rule_score + 3 * f.ml_risk)) <= 5
               /\ DOMAIN f.breakdown = SignalNames \cup {"ml_anomaly"}
               /\ f.breakdown.ml_anomaly = f.ml_risk
          ELSE /\ f.risk_score = f.rule_score
               /\ f.ml_risk = 0
               /\ DOMAIN f.breakdown = SignalNames
    /\ \A p \in Callers : frame[p].pc = "raised" => SawModel(p)

\* a blended score that differs from its rule score has been returned
C7_Witness ==
    \E p \in Callers :
       /\ frame[p].pc = "returned"
       /\ SawModel(p)
       /\ frame[p].rule_score = 2100
       /\ frame[p].ml_risk = 4568
       /\ frame[p].risk_score = 2840

\* the user's rows among the first seen rows with a timestamp in the window
WindowRows(p, window) ==
    {i \in 1..frame[p].seen :
        /\ store[i].username = frame[p].username
        /\ store[i].timestamp > frame[p].t - window}

\* C8: velocity is decided by the number n of the same user's rows of the
\* last 5 minutes alone: 95 if n > 10, 70 if n > 5, 40 if n > 3, else 0.
C8_Velocity ==
    \A p \in Scored :
       LET n == Cardinality(WindowRows(p, 300000))
           v == frame[p].breakdown.velocity
       IN  /\ n > 10 => v = 95
           /\ (n > 5 /\ n <= 10) => v = 70
           /\ (n > 3 /\ n <= 5) => v = 40
           /\ n <= 3 => v = 0

\* 11 rows in the window give 95, beside rows of another user and an older
\* row of the same user
C8_Witness ==
    \E p \in Scored :
       /\ Cardinality(WindowRows(p, 300000)) = 11
       /\ frame[p].breakdown.velocity = 95
       /\ \E i \in 1..frame[p].seen : store[i].username # frame[p].username
       /\ \E i \in 1..frame[p].seen :
             /\ store[i].username = frame[p].username
             /\ store[i].timestamp <= frame[p].t - 300000

\* C9: a user without a row in the table gets 0 for velocity,
\* device_switching, network_switching, timing_pattern and
\* fingerprint_change, and latency_anomaly is judged against 150 ms.
C9_ColdStart ==
    \A p \in Scored :
       LET f == frame[p]
           latency == IF "latency" \in DOMAIN f.params THEN f.params.latency ELSE 150
       IN  (\A i \in 1..f.seen : store[i].username # f.username) =>
              /\ f.breakdown.velocity = 0
              /\ f.breakdown.device_switching = 0
              /\ f.breakdown.network_switching = 0
              /\ f.breakdown.timing_pattern = 0
              /\ f.breakdown.fingerprint_change = 0
              /\ f.breakdown.latency_anomaly =
                    IF latency < 50 THEN 70
                    ELSE IF Abs(latency - 150) > 200 THEN 50
                    ELSE 0

\* a first call of a user, in a table that holds other users' rows, with a
\* latency of 300 ms: within 200 of 150, so latency_anomaly is 0
C9_Witness ==
    \E p \in Scored :
       /\ frame[p].seen > 0
       /\ \A i \in 1..frame[p].seen : store[i].username # frame[p].username
       /\ frame[p].params = Emulator.params
       /\ frame[p].breakdown.latency_anomaly = 0

\* whether word occurs in device_id, letter case ignored
OccursIgnoringCase(word, device_id) ==
    \E k \in 0..(Len(device_id) - Len(word)) :
       \A i \in 1..Len(word) :
          \/ device_id[k + i] = word[i]
          \/ UpperChar(device_id[k + i]) = word[i]

\* C10: device_spoofing is 85 when device_id holds "bypass", "test" or
\* "emulator" in any letter case and 0 otherwise, and it adds exactly 4.25
\* to the rule score whatever the other six signals are.
C10_DeviceSpoofing ==
    \A p \in Scored :
       LET f == frame[p]
           device_id == IF "device_id" \in DOMAIN f.params
                        THEN f.params.device_id ELSE <<>>
           spoofed == \/ OccursIgnoringCase(BYPASS, device_id)
                      \/ OccursIgnoringCase(TEST, device_id)
                      \/ OccursIgnoringCase(EMULATOR, device_id)
           others == f.breakdown.velocity * 25
                     + f.breakdown.device_switching * 20
                     + f.breakdown.network_switching * 15
                     + f.breakdown.latency_anomaly * 15
                     + f.breakdown.timing_pattern * 10
                     + f.breakdown.fingerprint_change * 10
       IN  /\ f.breakdown.device_spoofing = IF spoofed THEN 85 ELSE 0
           /\ f.rule_score = others + (IF spoofed THEN 425 ELSE 0)

\* a mixed-case "xByPass" device of a user with a busy history: 85, beside
\* a velocity signal that is not 0
C10_Witness ==
    \E p \in Scored :
       /\ frame[p].params = Bot.params
       /\ frame[p].breakdown.device_spoofing = 85
       /\ frame[p].breakdown.velocity = 70
       /\ frame[p].breakdown.fingerprint_change = 60

\* C11: the rule-based total is velocity * .25 + device_switching * .20 +
\* network_switching * .15 + latency_anomaly * .15 + timing_pattern * .10 +
\* fingerprint_change * .10 + device_spoofing * .05 rounded to the nearest
\* hundredth, so the signal vector alone decides it; the vector
\* {40, 30, 0, 0, 50, 0, 0} gives 21.0; every total reached is below 100.
C11_RuleTotal ==
    \A p \in Scored :
       LET b == frame[p].breakdown
           thousandths == b.velocity * 250
                          + b.device_switching * 200
                          + b.network_switching * 150
                          + b.latency_anomaly * 150
                          + b.timing_pattern * 100
                          + b.fingerprint_change * 100
                          + b.device_spoofing * 50
       IN  /\ 2 * Abs(10 * frame[p].rule_score - thousandths) <= 10
           /\ 2 * Abs(10 * frame[p].rule_score - thousandths) = 10 =>
                 frame[p].rule_score % 2 = 0
           /\ frame[p].rule_score < 10000
           /\ (/\ b.velocity = 40
               /\ b.device_switching = 30
               /\ b.network_switching = 0
               /\ b.latency_anomaly = 0
               /\ b.timing_pattern = 50
               /\ b.fingerprint_change = 0
               /\ b.device_spoofing = 0) => frame[p].rule_score = 2100

\* a call scored with the vector {40, 30, 0, 0, 50, 0, 0} and 21.0
C11_Witness ==
    \E p \in Scored :
       /\ RuleSignals(frame[p].breakdown) =
             [velocity |-> 40, device_switching |-> 30, network_switching |-> 0,
              latency_anomaly |-> 0, timing_pattern |-> 50,
              fingerprint_change |-> 0, device_spoofing |-> 0]
       /\ frame[p].rule_score = 2100

\* callers that hold the result of a check_abandonment call
Checkers == {p \in Callers : frame[p].abandonment # <<>>}

\* the abandonment events check_abandonment had to count: rows of that user
\* with step < 3 and success = 0 in the 60 minutes before the call
AbandonmentEvents(a) ==
    {i \in 1..a.seen :
        /\ store[i].username = a.username
        /\ store[i].timestamp > a.t - 3600000
        /\ store[i].step < 3
        /\ store[i].success = 0}

\* C12: for last_step 1 or 2, check_abandonment returns 12 or 18 plus the
\* one increment of the count c of the user's abandonment events of the last
\* 60 minutes: 15 if c > 5, else 10 if c > 3, else 6 if c > 1, else 0.
C12_Abandonment ==
    \A p \in Checkers :
       LET a == frame[p].abandonment
           c == Cardinality(AbandonmentEvents(a))
           base == IF a.last_step = 1 THEN 12 ELSE 18
       IN  a.last_step \in {1, 2} =>
              /\ c > 5 => a.risk = base + 15
              /\ (c > 3 /\ c <= 5) => a.risk = base + 10
              /\ (c > 1 /\ c <= 3) => a.risk = base + 6
              /\ c <= 1 => a.risk = base
              /\ (c = 2 /\ a.last_step = 1) => a.risk = 18
              /\ (c = 2 /\ a.last_step = 2) => a.risk = 24

\* step 2 abandoned with 2 abandonment events in the last hour gives 24,
\* while older abandonment events of the same user are in the table
C12_Witness ==
    \E p \in Checkers :
       LET a == frame[p].abandonment IN
       /\ a.last_step = 2
       /\ Cardinality(AbandonmentEvents(a)) = 2
       /\ a.risk = 24
       /\ \E i \in 1..a.seen :
             /\ store[i].username = a.username
             /\ store[i].step < 3
             /\ store[i].success = 0
             /\ store[i].timestamp <= a.t - 3600000

\* the parameters an attempt has to carry
RequiredParams ==
    {"device_id", "network_operator", "latency", "fingerprint", "ip_address",
     "user_agent"}

\* whether the arguments of the call held by f are well-formed
WellFormed(f) ==
    /\ f.step \in {1, 2, 3}
    /\ RequiredParams \subseteq DOMAIN f.params

\* C13: a log_attempt call whose step is none of 1, 2, 3 or whose params
\* lack a required parameter returns no risk score and appends no row, and
\* so every row of login_attempts has a step of 1, 2 or 3.
C13_Validation ==
    /\ \A p \in Callers :
          (frame[p].pc # "idle" /\ ~WellFormed(frame[p])) =>
             /\ frame[p].pc # "returned"
             /\ frame[p].row = 0
    /\ \A i \in 1..Len(store) : store[i].step \in {1, 2, 3}

\* C14: a log_attempt call during which an access to the store raised never
\* returns a risk score; when the access was a read of the signal
\* computation no score was formed, and when it came before the commit of
\* the INSERT the table has no row of the call and is as long as the call
\* found it.
C14_StoreFailureIsFatal ==
    \A p \in Callers :
       LET f == frame[p] IN
       /\ f.failed_at # "" => f.pc = "failed"
       /\ f.pc = "failed" => f.failed_at \in {"signals", "ml_features", "insert", "train"}
       /\ f.failed_at = "signals" =>
             /\ f.breakdown = <<>>
             /\ f.rule_score = 0
             /\ f.risk_score = 0
       /\ f.failed_at \in {"signals", "ml_features", "insert"} =>
             /\ f.row = 0
             /\ Len(store) = f.seen
       /\ f.failed_at = "train" => f.row = Len(store)

\* the first read of a call failed for a user whose rows of the last 5
\* minutes would have given a velocity signal
C14_Witness ==
    \E p \in Callers :
       /\ frame[p].pc = "failed"
       /\ frame[p].failed_at = "signals"
       /\ Len(store) = frame[p].seen
       /\ Cardinality({i \in 1..Len(store) :
                          /\ store[i].username = frame[p].username
                          /\ store[i].timestamp > frame[p].t - 300000}) > 3

\* the columns log_attempt fills from params
ParamColumns ==
    {"device_id", "network_operator", "latency", "fingerprint", "ip_address",
     "user_agent"}

\* C15: the row a log_attempt call appended reads back with the username,
\* the step, every parameter the caller supplied and the success flag (1
\* for True, 0 for False, which Python compares equal) as they were passed,
\* and with the risk_score the call returns; id and timestamp are the
\* store's: the next id and the time of the insert.
C15_RoundTrip ==
    \A p \in Inserted :
       LET f == frame[p]
           r == store[f.row]
       IN  /\ r.username = f.username
           /\ r.step = f.step
           /\ \A k \in ParamColumns \cap DOMAIN f.params : r[k] = f.params[k]
           /\ r.success \in {0, 1}
           /\ (r.success = 1) <=> f.success
           /\ r.risk_score = f.risk_score
           /\ r.id = f.row
           /\ r.timestamp >= f.t

\* a call that supplied all six parameters has returned a blended score and
\* its row holds them, stamped later than the call was scored
C15_Witness ==
    \E p \in Inserted :
       /\ frame[p].pc = "returned"
       /\ frame[p].params = Bot.params
       /\ SawModel(p)
       /\ frame[p].risk_score # frame[p].rule_score
       /\ store[frame[p].row].risk_score = frame[p].risk_score
       /\ store[frame[p].row].user_agent = "Python/3.9"
       /\ store[frame[p].row].success = 0
       /\ store[frame[p].row].timestamp > frame[p].t

\* C16: login_attempts is append-only.  A step either leaves the table as it
\* is or appends one row, with an id above every id in it, below which every
\* row stays as it was, and that step is the INSERT of a log_attempt call;
\* scoring, the model steps, train_ml_model, check_abandonment and
\* get_ueba_metrics leave the table as it is; a call that has returned has
\* added exactly one row.
C16_AppendOnly ==
    /\ [](\A p \in Callers :
             frame[p].pc = "returned" =>
                /\ frame[p].row > 0
                /\ Len(store) = frame[p].seen + 1)
    /\ [][/\ \/ store' = store
             \/ /\ Len(store') = Len(store) + 1
                /\ \A i \in 1..Len(store) :
                      /\ store'[i] = store[i]
                      /\ store'[Len(store')].id > store[i].id
                /\ \E p \in Callers :
                      /\ frame[p].pc = "insert"
                      /\ frame[p].row = 0
                      /\ frame'[p].row = Len(store')
          /\ \A p \in Callers :
                (\/ frame[p].pc \in {"ml_check", "ml_features", "ml_predict",
                                     "ml_score", "train", "fit"}
                 \/ frame'[p].pc = "ml_check"
                 \/ frame'[p].abandonment # frame[p].abandonment
                 \/ frame'[p].metrics # frame[p].metrics) => store' = store
         ]_vars

\* after a call that inserted the 50th row and retrained the model, the
\* caller has run check_abandonment
C16_Witness ==
    \E p \in Callers :
       /\ frame[p].pc = "returned"
       /\ frame[p].retrain
       /\ frame[p].row = 50
       /\ Len(store) = 50
       /\ ml_model.samples >= 10
       /\ frame[p].abandonment # <<>>

\* C17: after an abandoned flow, single_login and bulk_test report the score
\* of the last logged step plus the value of check_abandonment, clamped to
\* 100.
C17_CallerClamp ==
    \A p \in Checkers :
       LET a == frame[p].abandonment
           sum == frame[p].risk_score + 100 * a.risk
       IN  a.caller \in {"single_login", "bulk_test"} =>
              a.total_risk = IF sum > 10000 THEN 10000 ELSE sum

\* C18: the feature vector get_ml_risk_score hands to the model has the
\* step of the attempt being scored as its third component, the value the
\* step column holds for that attempt in the training set.
C18_FeatureStep ==
    \A p \in Callers :
       /\ frame[p].features # <<>> => frame[p].features[3] = frame[p].step
       /\ (frame[p].features # <<>> /\ frame[p].row > 0) =>
             frame[p].features[3] = store[frame[p].row].step

\* the fingerprints the latest of the user's rows with a non-empty
\* fingerprint hold, among the rows the call found (one, unless the latest
\* rows share a timestamp)
RecordedFingerprints(p) ==
    LET rows == {i \in 1..frame[p].seen :
                    /\ store[i].username = frame[p].username
                    /\ store[i].fingerprint # ""}
    IN  {store[k].fingerprint :
            k \in {i \in rows :
                      \A j \in rows : store[j].timestamp <= store[i].timestamp}}

\* the fingerprint of the attempt held by p
CurrentFingerprint(p) ==
    IF "fingerprint" \in DOMAIN frame[p].params
    THEN frame[p].params.fingerprint ELSE ""

\* C19 as stated: fingerprint_change is 60 whenever the user's most recent
\* stored non-empty fingerprint differs from the fingerprint of the attempt,
\* 0 when they are the same and 0 when the user has none on record.
C19_FingerprintChange ==
    \A p \in Scored :
       LET v == frame[p].breakdown.fingerprint_change IN
       IF RecordedFingerprints(p) = {} THEN v = 0
       ELSE \E fp \in RecordedFingerprints(p) :
               v = IF fp # CurrentFingerprint(p) THEN 60 ELSE 0

\* C19 as amended: fingerprint_change is 60 when the attempt carries a
\* non-empty fingerprint that differs from the user's most recent stored
\* non-empty fingerprint; it is 0 when they are the same, when the attempt
\* carries no fingerprint or an empty one, and when the user has no
\* non-empty fingerprint on record.  Rows with an empty fingerprint are
\* skipped when the most recent one is looked up.
C19_FingerprintChangeOfGivenFingerprint ==
    \A p \in Scored :
       LET v == frame[p].breakdown.fingerprint_change IN
       IF RecordedFingerprints(p) = {} \/ CurrentFingerprint(p) = "" THEN v = 0
       ELSE \E fp \in RecordedFingerprints(p) :
               v = IF fp # CurrentFingerprint(p) THEN 60 ELSE 0

\* the user's latest row has an empty fingerprint and is skipped: the
\* attempt is compared with the older FP_DEFAULT and gets 60
C19_Witness ==
    \E p \in Scored :
       /\ frame[p].seen > 0
       /\ store[frame[p].seen].username = frame[p].username
       /\ store[frame[p].seen].fingerprint = ""
       /\ \A i \in 1..frame[p].seen :
             store[i].timestamp <= store[frame[p].seen].timestamp
       /\ RecordedFingerprints(p) = {"FP_DEFAULT"}
       /\ CurrentFingerprint(p) = "FP_SPOOFED"
       /\ frame[p].breakdown.fingerprint_change = 60

\* the rows of the user, among those the call of p found, with a latency
PriorLatencyRows(p) ==
    {i \in 1..frame[p].seen :
        store[i].username = frame[p].username /\ store[i].latency > 0}

\* C20: latency_anomaly is 70 if the current latency is below 50, else 50 if
\* the current latency is more than 200 away from the average latency of the
\* user's prior events with latency > 0 (150 when there is none), else 0;
\* events stored with latency 0 never enter the average.  The average is
\* compared exactly: |current - sum/n| > 200 iff |current*n - sum| > 200*n.
C20_LatencyAnomaly ==
    \A p \in Scored :
       LET n == Cardinality(PriorLatencyRows(p))
           sum == SumLatency(store, PriorLatencyRows(p))
           current == IF "latency" \in DOMAIN frame[p].params
                      THEN frame[p].params.latency ELSE 150
           away == IF n = 0 THEN Abs(current - 150) > 200
                   ELSE Abs(current * n - sum) > 200 * n
       IN  frame[p].breakdown.latency_anomaly =
              IF current < 50 THEN 70 ELSE IF away THEN 50 ELSE 0

\* a user with rows of latency 0 and rows of latency 140: an attempt of
\* latency 300 is within 200 of 140 and gets 0, while it is more than 200
\* away from the average over all the user's rows
C20_Witness ==
    \E p \in Scored :
       LET all == {i \in 1..frame[p].seen :
                      store[i].username = frame[p].username}
       IN  /\ PriorLatencyRows(p) # {}
           /\ \E i \in all : store[i].latency = 0
           /\ "latency" \in DOMAIN frame[p].params
           /\ frame[p].params.latency = 300
           /\ Abs(300 * Cardinality(all) - SumLatency(store, all)) >
                 200 * Cardinality(all)
           /\ frame[p].breakdown.latency_anomaly = 0

\* C25: a completed flow is not an abandonment case: check_abandonment
\* called with last_step = 3 returns 0 whatever the number of abandonment
\* events of the user in the last 60 minutes, and last_step 1 or 2 returns a
\* positive additional risk.
C25_CompletedFlowAddsNothing ==
    \A p \in Checkers :
       LET a == frame[p].abandonment IN
       /\ a.last_step = 3 => a.risk = 0
       /\ a.last_step \in {1, 2} => a.risk > 0

\* a training that found at least 10 samples has run
TrainedOnce ==
    \E i \in 1..Len(trainLog) : trainLog[i].samples >= 10

\* C26: model presence is monotone.  The model is absent until the first
\* training that finds at least 10 samples and present from then on: no step
\* of log_attempt or train_ml_model sets ml_model back to None, and a call
\* that is about to write its event while a model is present carries a
\* blended score (0.7 rule + 0.3 ml, with ml_anomaly in its breakdown).
C26_ModelPresenceMonotone ==
    /\ [](/\ (ml_model # NoModel) <=> (ML_AVAILABLE /\ TrainedOnce)
          /\ \A p \in Callers :
                (frame[p].pc = "insert" /\ ml_model # NoModel) =>
                    /\ "ml_anomaly" \in DOMAIN frame[p].breakdown
                    /\ Abs(10 * frame[p].risk_score
                           - (7 * frame[p].rule_score + 3 * frame[p].ml_risk)) <= 5)
    /\ [][ml_model # NoModel => ml_model' # NoModel]_vars

\* a retrain was triggered while a model was present, the model is still
\* present, and the call made after it has returned a blended score
C26_Witness ==
    /\ ml_model # NoModel
    /\ \E i \in 1..Len(trainLog) :
          trainLog[i].before # NoModel /\ trainLog[i].after # trainLog[i].before
    /\ \E p \in Callers :
          /\ frame[p].pc = "returned"
          /\ frame[p].seen >= 50
          /\ ~frame[p].retrain
          /\ "ml_anomaly" \in DOMAIN frame[p].breakdown

\* the rows of the user among those the call of p found
PriorRows(p) ==
    {i \in 1..frame[p].seen : store[i].username = frame[p].username}

\* ... of the 30 minutes before the call
HalfHourRows(p) ==
    {i \in PriorRows(p) : store[i].timestamp > frame[p].t - 1800000}

\* C21: timing_pattern is computed from the timestamps of the user's two
\* most recent prior events: with d the difference between them it is 80 if
\* d < 1000 ms, 50 if d < 5000 ms, else 0; with fewer than 2 prior events it
\* is 0, so a user's first and second attempts get 0.
C21_TimingPattern ==
    \A p \in Scored :
       LET v == frame[p].breakdown.timing_pattern IN
       IF Cardinality(PriorRows(p)) < 2 THEN v = 0
       ELSE \E i, j \in PriorRows(p) :
               /\ i # j
               /\ store[j].timestamp <= store[i].timestamp
               /\ \A k \in PriorRows(p) \ {i, j} :
                     store[k].timestamp <= store[j].timestamp
               /\ LET d == store[i].timestamp - store[j].timestamp
                  IN  v = IF d < 1000 THEN 80 ELSE IF d < 5000 THEN 50 ELSE 0

\* the user's two latest events are 999 ms apart and the attempt gets 80,
\* while the latest two events of the table are those of two users
C21_Witness ==
    \E p \in Scored :
       /\ Cardinality(PriorRows(p)) >= 2
       /\ \E i, j \in PriorRows(p) :
             /\ store[i].timestamp - store[j].timestamp = 999
             /\ \A k \in PriorRows(p) \ {i} :
                   store[k].timestamp <= store[j].timestamp
       /\ frame[p].seen \notin PriorRows(p)
       /\ frame[p].breakdown.timing_pattern = 80

\* C22: device_switching depends only on the number k of distinct device_id
\* values among the user's stored events of the last 30 minutes: 90 if
\* k > 5, 60 if k > 3, 30 if k > 1, else 0.  A device used again does not
\* raise k; events older than 30 minutes or of other users are not counted.
C22_DeviceSwitching ==
    \A p \in Scored :
       LET k == Cardinality({store[i].device_id : i \in HalfHourRows(p)})
       IN  frame[p].breakdown.device_switching =
              IF k > 5 THEN 90 ELSE IF k > 3 THEN 60 ELSE IF k > 1 THEN 30 ELSE 0

\* 4 devices on 5 events of the window give 60, while the user has an older
\* event on a fifth device and another user has a recent one on a sixth
C22_Witness ==
    \E p \in Scored :
       /\ Cardinality({store[i].device_id : i \in HalfHourRows(p)}) = 4
       /\ Cardinality(HalfHourRows(p)) = 5
       /\ \E i \in PriorRows(p) \ HalfHourRows(p) :
             \A j \in HalfHourRows(p) : store[j].device_id # store[i].device_id
       /\ \E i \in 1..frame[p].seen :
             /\ store[i].username # frame[p].username
             /\ store[i].timestamp > frame[p].t - 1800000
             /\ \A j \in HalfHourRows(p) : store[j].device_id # store[i].device_id
       /\ frame[p].breakdown.device_switching = 60

\* C23: network_switching depends only on the number k of distinct
\* non-empty network_operator values among the user's stored events of the
\* last 30 minutes: 85 if k > 3, 50 if k > 1, else 0; events stored with an
\* empty operator do not count as an operator.
C23_NetworkSwitching ==
    \A p \in Scored :
       LET k == Cardinality({store[i].network_operator : i \in HalfHourRows(p)}
                            \ {""})
       IN  frame[p].breakdown.network_switching =
              IF k > 3 THEN 85 ELSE IF k > 1 THEN 50 ELSE 0

\* 3 operators and events with none in the window: the attempt gets 50,
\* where the empty operator counted as a fourth would give 85
C23_Witness ==
    \E p \in Scored :
       /\ Cardinality({store[i].network_operator : i \in HalfHourRows(p)}) = 4
       /\ \E i \in HalfHourRows(p) : store[i].network_operator = ""
       /\ frame[p].breakdown.network_switching = 50

\* the callers that hold the result of a get_ueba_metrics
Readers == {p \in Callers : frame[p].metrics # <<>>}

\* the rows a get_ueba_metrics found in its window
MetricsRows(m, window) ==
    {i \in 1..m.seen : store[i].timestamp > m.t - window}

\* list holds the (username, n[username]) pairs of the users whose n exceeds
\* threshold: all of them up to 10, the 10 largest beyond, in descending
\* order of n
TopTen(list, n, threshold) ==
    LET over == {u \in DOMAIN n : n[u] > threshold}
        listed == {list[i][1] : i \in 1..Len(list)}
        least == IF Len(list) = 0 THEN 0 ELSE list[Len(list)][2]
    IN  /\ Len(list) = IF Cardinality(over) < 10 THEN Cardinality(over) ELSE 10
        /\ Cardinality(listed) = Len(list)
        /\ listed \subseteq over
        /\ \A i \in 1..Len(list) : list[i][2] = n[list[i][1]]
        /\ \A i \in 1..(Len(list) - 1) : list[i][2] >= list[i + 1][2]
        /\ \A u \in over \ listed : n[u] <= least

\* C24: in get_ueba_metrics the ranked lists hold exactly the usernames that
\* exceed their threshold in their own window, limited to the 10 largest and
\* in descending order of the count: high_velocity the users with more than
\* 3 events in the last 5 minutes, device_switchers those with more than 1
\* distinct device_id in the last 30 minutes, abandonment_patterns those
\* with more than 1 event with step < 3 and success = false in the last 60
\* minutes; a user at or below the threshold is in none.
C24_RankedLists ==
    \A p \in Readers :
       LET m == frame[p].metrics
           users == {store[i].username : i \in 1..m.seen}
           last5 == MetricsRows(m, 300000)
           last30 == MetricsRows(m, 1800000)
           last60 == MetricsRows(m, 3600000)
           attempts == [u \in users |->
                          Cardinality({i \in last5 : store[i].username = u})]
           devices == [u \in users |->
                         Cardinality({store[i].device_id :
                                         i \in {j \in last30 :
                                                   store[j].username = u}})]
           abandonments == [u \in users |->
                              Cardinality({i \in last60 :
                                              /\ store[i].username = u
                                              /\ store[i].step < 3
                                              /\ store[i].success = 0})]
       IN  /\ TopTen(m.high_velocity, attempts, 3)
           /\ TopTen(m.device_switchers, devices, 1)
           /\ TopTen(m.abandonment_patterns, abandonments, 1)

\* more than 10 users exceed each threshold and each list holds 10; a user
\* with exactly 3 events in the last 5 minutes is left out of high_velocity
\* and is among the device_switchers
C24_Witness ==
    \E p \in Readers :
       LET m == frame[p].metrics IN
       /\ Len(m.high_velocity) = 10
       /\ Len(m.device_switchers) = 10
       /\ Len(m.abandonment_patterns) = 10
       /\ m.high_velocity[10][2] = 4
       /\ \E u \in {store[i].username : i \in 1..m.seen} :
             /\ Cardinality({i \in MetricsRows(m, 300000) :
                                store[i].username = u}) = 3
             /\ \A i \in 1..10 : m.high_velocity[i][1] # u
             /\ \E i \in 1..10 : m.device_switchers[i][1] = u
       /\ Cardinality({store[i].username :
                          i \in {j \in MetricsRows(m, 300000) :
                                    Cardinality({k \in MetricsRows(m, 300000) :
                                                    store[k].username =
                                                    store[j].username}) > 3}})
             > 10

=============================================================================
